---- MODULE Spec2Model ----
(***************************************************************************)
(* Model of the AI-Chat-App backend: the process-wide AgentManager         *)
(* (backend/agent.py) and the /upload and /chat handlers                    *)
(* (backend/routes.py).                                                     *)
(*                                                                          *)
(* State: the FAISS index referenced by agent_manager.vector_store, the     *)
(* ConversationBufferMemory attached to the agent, the temporary files on   *)
(* disk, and one record per HTTP request (its position in the handler and   *)
(* its locals).  The handlers are coroutines on one event loop.  chat has   *)
(* no await: it runs from its arrival to its response before any other      *)
(* request takes a step.  upload_file awaits file.read(); the model lets    *)
(* every later step of an upload interleave with other requests, which      *)
(* includes every schedule the event loop can produce.                      *)
(*                                                                          *)
(* Library calls made by the handlers are modelled by what they do with    *)
(* the arguments the source passes: FAISS.from_texts, similarity_search,    *)
(* RecursiveCharacterTextSplitter.split_text, PythonREPL.run, and the       *)
(* AgentExecutor built by initialize_agent with its default settings       *)
(* (max_iterations 15, early stopping "force", handle_parsing_errors off). *)
(***************************************************************************)
EXTENDS Integers, Sequences, FiniteSets, TLC

\* ---------------------------------------------------------------- bounds
MaxRequests == 3
MaxInFlight == 2

Req == 1..MaxRequests

\* ------------------------------------------------------ program constants
\* get_similar_docs(self, query, k=3)
k == 3
\* AgentExecutor default, initialize_agent is called without max_iterations
max_iterations == 15

\* ------------------------------------------------------------- utilities
Abs(n) == IF n < 0 THEN 0 - n ELSE n

Range(s) == {s[i] : i \in 1..Len(s)}

\* str.endswith(suffix) on character sequences
endswith(s, suffix) ==
    /\ Len(s) >= Len(suffix)
    /\ SubSeq(s, Len(s) - Len(suffix) + 1, Len(s)) = suffix

DotTxt == <<".", "t", "x", "t">>
DotPdf == <<".", "p", "d", "f">>

\* ------------------------------------------------------------ the inputs
\* Uploaded files: a file name and the bytes.  The bytes are described by
\* the format they are valid in and by the text they carry, given as the
\* paragraph-separated blocks the splitter cuts at (each under chunk_size).
Blank == " "

Files ==
    { [filename |-> <<"a", ".", "t", "x", "t">>, format |-> "utf8", blocks |-> <<"A", "B">>],
      [filename |-> <<"w", ".", "t", "x", "t">>, format |-> "utf8", blocks |-> <<Blank>>],
      [filename |-> <<"x", ".", "t", "x", "t">>, format |-> "binary", blocks |-> <<>>],
      [filename |-> <<"c", ".", "p", "d", "f">>, format |-> "pdf", blocks |-> <<"C">>],
      [filename |-> <<"y", ".", "p", "d", "f">>, format |-> "binary", blocks |-> <<>>],
      [filename |-> <<"a", ".", "t", "x", "t", ".", "b">>, format |-> "utf8", blocks |-> <<"B">>] }

NoFile == [filename |-> <<>>, format |-> "none", blocks |-> <<>>]

Questions == {"qA", "qC"}

\* What the language-model backend returns on one call: text, or a failure.
LLMText(t) == [ok |-> TRUE, text |-> t]
LLMFail == [ok |-> FALSE, text |-> <<>>]

FinalOut == LLMText(<<"Thought:", "AI:", "ans">>)
CalcGood == LLMText(<<"Action:", "calculator", "Action Input:", "print(17*23)">>)
CalcBad == LLMText(<<"Action:", "calculator", "Action Input:", "17*">>)
OtherTool == LLMText(<<"Action:", "search", "Action Input:", "x">>)
Garbage == LLMText(<<"hmm">>)

\* A backend behaviour: what it returns on its 1st, 2nd, ... call of one
\* request; the last entry repeats.
Scripts ==
    { <<FinalOut>>,
      <<CalcBad, CalcGood, FinalOut>>,
      <<OtherTool, CalcBad>>,
      <<CalcBad, Garbage>>,
      <<CalcGood, LLMFail>> }

ScriptAt(script, n) == script[IF n <= Len(script) THEN n ELSE Len(script)]


\* ------------------------------------------------- routes.py: upload_file
\* file.filename.endswith(('.txt', '.pdf'))
ValidFileType_contains(filename) ==
    \/ \E i \in 1..Len(filename), j \in 1..Len(filename) :
          SubSeq(filename, i, j) = DotTxt
    \/ \E i \in 1..Len(filename), j \in 1..Len(filename) :
          SubSeq(filename, i, j) = DotPdf

ValidFileType(filename) ==
    endswith(filename, DotTxt) \/ endswith(filename, DotPdf)

\* The try block's extraction: a .txt name is opened as UTF-8 text, any
\* other accepted name goes through PdfReader; either raises on bytes that
\* are not in that format.
extract_text(file) ==
    IF endswith(file.filename, DotTxt)
    THEN [ok |-> file.format = "utf8", text |-> file.blocks]
    ELSE [ok |-> file.format = "pdf", text |-> file.blocks]

\* RecursiveCharacterTextSplitter.split_text: one chunk per block, blocks
\* that are only whitespace are dropped.
split_text(text) == SelectSeq(text, LAMBDA b : b # Blank)

\* --------------------------------------------- agent.py: the vector store
\* FAISS.from_texts: a fresh index over the texts; the index dimension is
\* taken from the first embedding, so an empty list raises.
FAISS_from_texts(texts) == [ok |-> texts # <<>>, index |-> texts]

\* _initialize_components: FAISS.from_texts([""], self.embeddings)
Placeholder == ""
InitialIndex == FAISS_from_texts(<<Placeholder>>).index

\* The value of self.vector_store while from_texts is still running: the
\* right-hand side is evaluated before the attribute is bound.
VisibleWhileBuilding_inplace(old, partial) == partial

VisibleWhileBuilding(old, partial) == old

\* update_vector_store: the value of self.vector_store after the call.
update_vector_store_additive(old, texts) ==
    IF FAISS_from_texts(texts).ok THEN old \o texts ELSE old

update_vector_store_reset(old, texts) ==
    IF FAISS_from_texts(texts).ok THEN FAISS_from_texts(texts).index ELSE <<>>

update_vector_store(old, texts) ==
    IF FAISS_from_texts(texts).ok THEN FAISS_from_texts(texts).index ELSE old

\* The embedding model, as a position on a line; similarity is distance.
Embed(s) ==
    CASE s = "A" -> 1 [] s = "qA" -> 1
      [] s = "B" -> 2
      [] s = "C" -> 3 [] s = "qC" -> 3
      [] s = "D" -> 4
      [] OTHER -> 0

Closer(index, query, i, j) ==
    \/ Abs(Embed(index[i]) - Embed(query)) < Abs(Embed(index[j]) - Embed(query))
    \/ /\ Abs(Embed(index[i]) - Embed(query)) = Abs(Embed(index[j]) - Embed(query))
       /\ i < j

RECURSIVE NearestFrom(_, _, _, _)
NearestFrom(index, query, n, left) ==
    IF n = 0 \/ left = {} THEN <<>>
    ELSE LET best == CHOOSE i \in left :
                         \A j \in left \ {i} : Closer(index, query, i, j)
         IN <<index[best]>> \o NearestFrom(index, query, n - 1, left \ {best})

\* vector_store.similarity_search(query, k=k)
similarity_search(index, query, n) ==
    NearestFrom(index, query, n, 1..Len(index))

\* get_similar_docs(query, k=3)
get_similar_docs(index, query) == similarity_search(index, query, k)


\* ------------------------------------------------- agent.py: _setup_agent
\* PythonREPL.run executes the command and returns what it printed; an
\* exception raised by the command is caught and its repr is returned.
PythonREPL_run_raising(command) ==
    IF command = <<"print(17*23)">>
    THEN [ok |-> TRUE, out |-> "391"]
    ELSE [ok |-> FALSE, out |-> "SyntaxError('invalid syntax')"]

PythonREPL_run(command) ==
    IF command = <<"print(17*23)">>
    THEN [ok |-> TRUE, out |-> "391"]
    ELSE [ok |-> TRUE, out |-> "SyntaxError('invalid syntax')"]

\* tools = [calculator]
ToolNames == {<<"calculator">>}

\* AgentExecutor defaults, none of them overridden by initialize_agent(...)
handle_parsing_errors == FALSE
StoppedResponse == <<"Agent stopped due to iteration limit or time limit.">>

First(S) == CHOOSE i \in S : \A j \in S : i <= j
Latest(S) == CHOOSE i \in S : \A j \in S : j <= i

\* The output parser of the conversational ReAct agent
\* (AgentType.CONVERSATIONAL_REACT_DESCRIPTION): text holding "AI:" is a
\* final answer (what follows the last "AI:"); otherwise it must match
\* "Action: <tool> Action Input: <input>"; anything else is a parse error.
parse(text) ==
    LET ai == {i \in 1..Len(text) : text[i] = "AI:"}
        act == {i \in 1..Len(text) : /\ text[i] = "Action:"
                                     /\ \E j \in (i+1)..Len(text) : text[j] = "Action Input:"}
    IN  IF ai # {}
        THEN [type |-> "finish", output |-> SubSeq(text, Latest(ai) + 1, Len(text)),
              tool |-> <<>>, tool_input |-> <<>>]
        ELSE IF act # {}
        THEN LET i == First(act)
                 j == First({m \in (i+1)..Len(text) : text[m] = "Action Input:"})
             IN [type |-> "action", output |-> <<>>,
                 tool |-> SubSeq(text, i + 1, j - 1),
                 tool_input |-> SubSeq(text, j + 1, Len(text))]
        ELSE [type |-> "error", output |-> <<>>, tool |-> <<>>, tool_input |-> <<>>]

\* Running the requested tool: the calculator, or the executor's
\* InvalidTool reply for a name that is not registered.
run_tool(tool, tool_input) ==
    IF tool \in ToolNames
    THEN PythonREPL_run(tool_input)
    ELSE [ok |-> TRUE, out |-> "is not a valid tool"]

\* ConversationBufferMemory.save_context: the input and the output of one
\* run are added together, human message first.
save_context_ai_only(memory, r, prompt, output) ==
    Append(memory, [role |-> "ai", content |-> output, req |-> r])

save_context(memory, r, prompt, output) ==
    memory \o << [role |-> "human", content |-> prompt, req |-> r],
                 [role |-> "ai", content |-> output, req |-> r] >>

\* routes.py chat: the prompt is the retrieved context and the question
\* inside a fixed template.
build_prompt(docs, question) == docs \o <<question>>


\* ------------------------------------------- agent.py: run_agent (the loop)
\* The language-model call raised: agent.run raises, chat's except clause
\* answers 500 with the error text.
on_backend_error_swallow(rec) ==
    [rec EXCEPT !.pc = "done", !.outcome = "llm_error", !.status = 200,
                !.answer = <<"backend error">>]

on_backend_error(rec) ==
    [rec EXCEPT !.pc = "done", !.outcome = "llm_error", !.status = 500,
                !.detail = "backend error"]

\* The run produced an output: it is returned as ChatResponse(answer=...).
on_finish(rec, how, output) ==
    [rec EXCEPT !.pc = "done", !.outcome = how, !.status = 200, !.answer = output]

\* The parser raised and handle_parsing_errors is off: the executor raises
\* ValueError, which chat's except clause turns into a 500.
on_parse_error(rec, text) ==
    IF handle_parsing_errors
    THEN [rec EXCEPT !.iterations = @ + 1,
                     !.intermediate_steps = Append(@,
                         [tool |-> <<"_Exception">>, tool_input |-> text,
                          observation |-> "Invalid or incomplete response"])]
    ELSE [rec EXCEPT !.pc = "done", !.outcome = "parse_error", !.status = 500,
                     !.detail = "An output parsing error occurred"]

\* One tool invocation: its result becomes the step's observation; a tool
\* that raises ends the run.
on_action(rec, tool, tool_input) ==
    LET o == run_tool(tool, tool_input)
    IN  IF o.ok
        THEN [rec EXCEPT !.iterations = @ + 1,
                         !.intermediate_steps = Append(@,
                             [tool |-> tool, tool_input |-> tool_input,
                              observation |-> o.out])]
        ELSE [rec EXCEPT !.pc = "done", !.outcome = "tool_error", !.status = 500,
                         !.detail = o.out]

\* One pass of the executor's loop: call the model, parse, act.
take_next_step(rec) ==
    LET out == ScriptAt(rec.script, rec.llm_calls + 1)
        called == [rec EXCEPT !.llm_calls = @ + 1]
    IN  IF ~out.ok THEN on_backend_error(called)
        ELSE LET p == parse(out.text)
             IN CASE p.type = "finish" -> on_finish(called, "finish", p.output)
                  [] p.type = "action" -> on_action(called, p.tool, p.tool_input)
                  [] OTHER -> on_parse_error(called, out.text)

\* The loop's exit when iterations reached max_iterations, early stopping
\* "force": the fixed stopped response is the run's output.
return_stopped_response(rec) == on_finish(rec, "budget", StoppedResponse)

Saved(rec) == rec.outcome \in {"finish", "budget"}

\* ------------------------------------------------------------------ state
VARIABLES
    vector_store,   \* agent_manager.vector_store: the chunks of the index
    chat_memory,    \* the agent's ConversationBufferMemory
    tempfiles,      \* requests whose temporary file is on disk
    req,            \* per request: position in its handler and its locals
    published,      \* history: the chunk lists bound by update_vector_store
    answered        \* history: chat requests in the order their run was saved

vars == <<vector_store, chat_memory, tempfiles, req, published, answered>>

NewReq ==
    [pc |-> "idle", kind |-> "none", file |-> NoFile, question |-> "",
     script |-> <<>>, text |-> <<>>, chunks |-> <<>>, new_index |-> <<>>,
     docs |-> <<>>, seen |-> <<>>, prompt |-> <<>>, iterations |-> 0,
     intermediate_steps |-> <<>>, llm_calls |-> 0, outcome |-> "none",
     status |-> 0, answer |-> <<>>, detail |-> "", called |-> FALSE,
     tmp |-> FALSE, mem_before |-> <<>>]

\* agent_manager = AgentManager(): the placeholder index, an empty memory
Init ==
    /\ vector_store = InitialIndex
    /\ chat_memory = <<>>
    /\ tempfiles = {}
    /\ req = [r \in Req |-> NewReq]
    /\ published = <<>>
    /\ answered = <<>>

\* Requests are numbered in their order of arrival; at most MaxInFlight of
\* them are being served at a time.
Arrived(r) ==
    /\ \A p \in 1..(r - 1) : req[p].pc # "idle"
    /\ Cardinality({p \in Req : req[p].pc \notin {"idle", "closed"}}) < MaxInFlight

\* A handler runs on the event loop without interruption up to its first
\* await: upload_file up to file.read(), chat (search and agent.run are
\* blocking calls) up to its response.  While a request is in such a
\* stretch the event loop serves no other request.
Free(r) == \A p \in Req \ {r} : req[p].pc \notin {"validate", "search", "agent", "done"}

\* The response has gone out; the handler's locals are gone with it.
Closed == [NewReq EXCEPT !.pc = "closed"]

\* POST /upload arrives
ArriveUpload(r) ==
    /\ req[r].pc = "idle" /\ Arrived(r) /\ Free(r)
    /\ \E f \in Files :
          req' = [req EXCEPT ![r] = [@ EXCEPT !.pc = "validate", !.kind = "upload",
                                              !.file = f]]
    /\ UNCHANGED <<vector_store, chat_memory, tempfiles, published, answered>>

\* POST /chat arrives, with what the backend will say during its run
ArriveChat(r) ==
    /\ req[r].pc = "idle" /\ Arrived(r) /\ Free(r)
    /\ \E q \in Questions, s \in Scripts :
          req' = [req EXCEPT ![r] = [@ EXCEPT !.pc = "search", !.kind = "chat",
                                              !.question = q, !.script = s]]
    /\ UNCHANGED <<vector_store, chat_memory, tempfiles, published, answered>>

\* upload_file: the extension check raises HTTPException(400)
UploadReject(r) ==
    /\ req[r].pc = "validate" /\ Free(r)
    /\ ~ValidFileType(req[r].file.filename)
    /\ req' = [req EXCEPT ![r] = [@ EXCEPT !.pc = "done", !.outcome = "bad_type",
                                           !.status = 400,
                                           !.detail = "File must be .txt or .pdf"]]
    /\ UNCHANGED <<vector_store, chat_memory, tempfiles, published, answered>>

\* upload_file: the temporary file is created and the upload written to it
UploadRead(r) ==
    /\ req[r].pc = "validate" /\ Free(r)
    /\ ValidFileType(req[r].file.filename)
    /\ tempfiles' = tempfiles \cup {r}
    /\ req' = [req EXCEPT ![r] = [@ EXCEPT !.pc = "extract", !.tmp = TRUE]]
    /\ UNCHANGED <<vector_store, chat_memory, published, answered>>

\* upload_file: text extraction and splitting inside the try block
UploadExtract(r) ==
    /\ req[r].pc = "extract" /\ Free(r)
    /\ LET x == extract_text(req[r].file)
       IN  req' = [req EXCEPT ![r] =
                IF x.ok
                THEN [@ EXCEPT !.pc = "update", !.text = x.text,
                               !.chunks = split_text(x.text)]
                ELSE [@ EXCEPT !.pc = "finally", !.outcome = "extract_error",
                               !.status = 500, !.detail = "cannot read file"]]
    /\ UNCHANGED <<vector_store, chat_memory, tempfiles, published, answered>>

\* update_vector_store is entered; from_texts raises on an empty list
UploadUpdate(r) ==
    /\ req[r].pc = "update" /\ Free(r)
    /\ IF FAISS_from_texts(req[r].chunks).ok
       THEN /\ req' = [req EXCEPT ![r] = [@ EXCEPT !.pc = "build", !.called = TRUE]]
            /\ UNCHANGED vector_store
       ELSE /\ req' = [req EXCEPT ![r] = [@ EXCEPT !.pc = "finally", !.called = TRUE,
                                                   !.outcome = "index_error",
                                                   !.status = 500,
                                                   !.detail = "list index out of range"]]
            /\ vector_store' = update_vector_store(vector_store, req[r].chunks)
    /\ UNCHANGED <<chat_memory, tempfiles, published, answered>>

\* from_texts builds the new index, one chunk at a time
UploadBuild(r) ==
    /\ req[r].pc = "build" /\ Free(r)
    /\ LET n == Len(req[r].new_index) + 1
           partial == Append(req[r].new_index, req[r].chunks[n])
       IN  /\ req' = [req EXCEPT ![r] =
                    [@ EXCEPT !.new_index = partial,
                              !.pc = IF n = Len(req[r].chunks) THEN "bind" ELSE "build"]]
           /\ vector_store' = VisibleWhileBuilding(vector_store, partial)
    /\ UNCHANGED <<chat_memory, tempfiles, published, answered>>

\* self.vector_store = <the new index>; the handler's return value is set
UploadBind(r) ==
    /\ req[r].pc = "bind" /\ Free(r)
    /\ vector_store' = update_vector_store(vector_store, req[r].chunks)
    /\ published' = Append(published, req[r].chunks)
    /\ req' = [req EXCEPT ![r] = [@ EXCEPT !.pc = "finally", !.outcome = "processed",
                                           !.status = 200]]
    /\ UNCHANGED <<chat_memory, tempfiles, answered>>

\* finally: os.unlink(temp_file_path); the response goes out
UploadFinally(r) ==
    /\ req[r].pc = "finally" /\ Free(r)
    /\ tempfiles' = tempfiles \ {r}
    /\ req' = [req EXCEPT ![r] = [@ EXCEPT !.pc = "done"]]
    /\ UNCHANGED <<vector_store, chat_memory, published, answered>>

\* chat: docs = agent_manager.get_similar_docs(question); the prompt
ChatSearch(r) ==
    /\ req[r].pc = "search" /\ Free(r)
    /\ LET docs == get_similar_docs(vector_store, req[r].question)
       IN  req' = [req EXCEPT ![r] =
                [@ EXCEPT !.pc = "agent", !.docs = docs, !.seen = vector_store,
                          !.mem_before = chat_memory,
                          !.prompt = build_prompt(docs, req[r].question)]]
    /\ UNCHANGED <<vector_store, chat_memory, tempfiles, published, answered>>

\* The outcome of a step of the run is applied: a run that produced an
\* output saves the turn to memory before agent.run returns.
Apply(r, rec) ==
    /\ req' = [req EXCEPT ![r] = rec]
    /\ IF Saved(rec)
       THEN /\ chat_memory' = save_context(chat_memory, r, rec.prompt, rec.answer)
            /\ answered' = Append(answered, r)
       ELSE UNCHANGED <<chat_memory, answered>>
    /\ UNCHANGED <<vector_store, tempfiles, published>>

\* agent.run: one iteration of the executor's loop
AgentStep(r) ==
    /\ req[r].pc = "agent"
    /\ req[r].iterations < max_iterations
    /\ Apply(r, take_next_step(req[r]))

\* agent.run: the iteration limit is reached
AgentStop(r) ==
    /\ req[r].pc = "agent"
    /\ req[r].iterations >= max_iterations
    /\ Apply(r, return_stopped_response(req[r]))

\* The response of a finished request is delivered.
Respond(r) ==
    /\ req[r].pc = "done" /\ Free(r)
    /\ req' = [req EXCEPT ![r] = Closed]
    /\ UNCHANGED <<vector_store, chat_memory, tempfiles, published, answered>>

Next ==
    \/ \E r \in Req : ArriveUpload(r)
    \/ \E r \in Req : ArriveChat(r)
    \/ \E r \in Req : UploadReject(r)
    \/ \E r \in Req : UploadRead(r)
    \/ \E r \in Req : UploadExtract(r)
    \/ \E r \in Req : UploadUpdate(r)
    \/ \E r \in Req : UploadBuild(r)
    \/ \E r \in Req : UploadBind(r)
    \/ \E r \in Req : UploadFinally(r)
    \/ \E r \in Req : ChatSearch(r)
    \/ \E r \in Req : AgentStep(r)
    \/ \E r \in Req : AgentStop(r)
    \/ \E r \in Req : Respond(r)

Spec == Init /\ [][Next]_vars


\* ------------------------------------------------------------- properties
IsPrefix(s, t) == Len(s) <= Len(t) /\ SubSeq(t, 1, Len(s)) = s

Chats == {r \in Req : req[r].kind = "chat"}
Uploads == {r \in Req : req[r].kind = "upload"}

\* The request that took the step, if it is r
Stepped(r) == req'[r] # req[r]

\* The chunk list bound by the most recent upload that got through
LastPublished == IF published = <<>> THEN InitialIndex ELSE published[Len(published)]

\* The indexes that were ever complete: the start-up one and every bound one
CompleteIndexes == {InitialIndex} \cup Range(published)

C1_IndexIsLastUpload ==
    /\ vector_store = LastPublished
    /\ published # <<>> => Placeholder \notin Range(vector_store)

C1_SearchStep ==
    \A r \in Req :
        (req[r].pc = "search" /\ req'[r].pc = "agent")
            => Range(req'[r].docs) \subseteq Range(LastPublished)

\* C1: ingestion is replace-all: the index is exactly the chunk list of the
\* most recent upload that got through (no chunk of an earlier upload, no
\* placeholder), and a search can only return chunks of that upload.
C1_ReplaceAll == [](C1_IndexIsLastUpload) /\ [][C1_SearchStep]_vars

C1_Witness ==
    /\ Len(published) = 2
    /\ Range(published[1]) \cap Range(published[2]) = {}
    /\ \E r \in Chats : /\ req[r].pc = "done"
                        /\ req[r].seen = published[2]
                        /\ req[r].docs # <<>>

\* C2: the rebuild is atomic for searches: whatever self.vector_store refers
\* to at any moment, and the index every search ran against, is an index
\* that was complete (the one before the update or the new one), never a
\* partly built one or a mix of old and new chunks.
C2_AtomicRebuild ==
    /\ vector_store \in CompleteIndexes
    /\ \A r \in Chats : req[r].pc \in {"agent", "done"}
                            => /\ req[r].seen \in CompleteIndexes
                               /\ Range(req[r].docs) \subseteq Range(req[r].seen)

C2_Witness ==
    \E r \in Chats, u \in Uploads :
        /\ req[u].pc = "build"
        /\ req[u].new_index # <<>>
        /\ req[r].pc = "agent"
        /\ req[r].seen # req[u].new_index

C3_MemoryShape ==
    /\ Len(chat_memory) = 2 * Len(answered)
    /\ \A i \in 1..Len(answered) :
          /\ chat_memory[2 * i - 1].role = "human"
          /\ chat_memory[2 * i - 1].req = answered[i]
          /\ chat_memory[2 * i].role = "ai"
          /\ chat_memory[2 * i].req = answered[i]
    /\ \A i, j \in 1..Len(answered) : answered[i] = answered[j] => i = j
    /\ \A r \in Chats : req[r].pc = "done" =>
          /\ req[r].status = 200 <=> r \in Range(answered)
          /\ req[r].status = 200 =>
                \E i \in 1..Len(answered) :
                    /\ answered[i] = r
                    /\ chat_memory[2 * i - 1].content = req[r].prompt
                    /\ chat_memory[2 * i].content = req[r].answer

C3_AppendOnly == IsPrefix(chat_memory, chat_memory')

\* C3: after N chat requests that returned an answer the memory holds N
\* human and N ai entries in the order the requests were answered, each
\* human entry directly followed by the ai entry of the same request, and
\* the memory only ever grows at its end.
C3_MemoryTurns == [](C3_MemoryShape) /\ [][C3_AppendOnly]_vars

C3_Witness ==
    /\ Len(answered) = 2
    /\ Len(chat_memory) = 4
    /\ \E r \in Chats : req[r].pc = "done" /\ req[r].status = 200

\* C4: a run that used up its iteration budget fails: no answer is returned
\* and nothing of the request is in the memory.
C4_BudgetExceededFails ==
    \A r \in Chats :
        (req[r].pc = "done" /\ req[r].iterations >= max_iterations)
            => /\ req[r].status >= 400
               /\ req[r].answer = <<>>
               /\ \A i \in 1..Len(chat_memory) : chat_memory[i].req # r

\* The text of the last backend call of r, when that call returned text
LastLLM(r) == ScriptAt(req[r].script, req[r].llm_calls)

\* C5: backend text that is neither a tool invocation nor a final answer is
\* returned verbatim as the answer, and the request succeeds.
C5_ParseFailureIsAnswer ==
    \A r \in Chats :
        (/\ req[r].pc = "done"
         /\ req[r].llm_calls >= 1
         /\ LastLLM(r).ok
         /\ parse(LastLLM(r).text).type = "error")
            => /\ req[r].status = 200
               /\ req[r].answer = LastLLM(r).text

\* Calculator inputs that are not valid Python
Malformed == {<<"17*">>}
ErrorTexts == {"SyntaxError('invalid syntax')"}

C6_Observations ==
    \A r \in Chats :
        /\ req[r].outcome # "tool_error"
        /\ \A i \in 1..Len(req[r].intermediate_steps) :
              LET st == req[r].intermediate_steps[i]
              IN  (st.tool \in ToolNames /\ st.tool_input \in Malformed)
                      => st.observation \in ErrorTexts

C6_FailingToolStep ==
    \A r \in Req :
        (/\ Stepped(r)
         /\ req[r].pc = "agent"
         /\ req[r].iterations < max_iterations
         /\ ScriptAt(req[r].script, req[r].llm_calls + 1).ok
         /\ LET p == parse(ScriptAt(req[r].script, req[r].llm_calls + 1).text)
            IN  p.type = "action" /\ p.tool \in ToolNames /\ p.tool_input \in Malformed)
            => /\ req'[r].pc = "agent"
               /\ req'[r].status = 0
               /\ req'[r].iterations = req[r].iterations + 1
               /\ Len(req'[r].intermediate_steps) = Len(req[r].intermediate_steps) + 1
               /\ req'[r].intermediate_steps[Len(req'[r].intermediate_steps)].observation
                      \in ErrorTexts

\* C6: a calculator failure becomes a textual observation appended to the
\* run's steps; the loop goes on to its next iteration and the request is
\* not ended by the failure.
C6_ToolFailureObserved == [](C6_Observations) /\ [][C6_FailingToolStep]_vars

C6_Witness ==
    \E r \in Chats :
        /\ req[r].pc = "done"
        /\ req[r].status = 200
        /\ \E i \in 1..Len(req[r].intermediate_steps) :
              /\ req[r].intermediate_steps[i].tool_input \in Malformed
              /\ req[r].intermediate_steps[i].observation \in ErrorTexts

BackendFailed(r) == req[r].llm_calls >= 1 /\ ~LastLLM(r).ok

C7_AfterFailure ==
    \A r \in Chats :
        /\ \A n \in 1..(req[r].llm_calls - 1) : ScriptAt(req[r].script, n).ok
        /\ BackendFailed(r) =>
              /\ req[r].pc = "done"
              /\ req[r].status >= 500
              /\ req[r].answer = <<>>
              /\ IsPrefix(req[r].mem_before, chat_memory)
              /\ \A i \in 1..Len(chat_memory) : chat_memory[i].req # r

C7_FailingStep ==
    \A r \in Req :
        (/\ Stepped(r)
         /\ req[r].pc = "agent"
         /\ req[r].iterations < max_iterations
         /\ ~ScriptAt(req[r].script, req[r].llm_calls + 1).ok)
            => /\ chat_memory' = chat_memory
               /\ chat_memory = req[r].mem_before
               /\ req'[r].pc = "done"

\* C7: a backend failure is not retried: the failing call is the last call
\* of the request, the caller gets an error response without an answer, and
\* the memory is what it was before the request.
C7_BackendFailureSurfaced == [](C7_AfterFailure) /\ [][C7_FailingStep]_vars

C7_Witness ==
    \E r \in Chats :
        /\ req[r].pc = "done"
        /\ BackendFailed(r)
        /\ req[r].llm_calls = 2
        /\ chat_memory # <<>>

BadName(r) ==
    /\ ~endswith(req[r].file.filename, DotTxt)
    /\ ~endswith(req[r].file.filename, DotPdf)

C8_Rejected ==
    \A r \in Uploads :
        (BadName(r) /\ req[r].pc # "validate")
            => /\ req[r].pc = "done"
               /\ req[r].status = 400
               /\ ~req[r].called
               /\ ~req[r].tmp
               /\ r \notin tempfiles

C8_RejectStep ==
    \A r \in Uploads :
        (Stepped(r) /\ BadName(r) /\ req[r].pc = "validate")
            => /\ vector_store' = vector_store
               /\ chat_memory' = chat_memory
               /\ tempfiles' = tempfiles

\* C8: an upload whose name ends in neither .txt nor .pdf is answered 400
\* before anything else happens: update_vector_store is not called, no
\* temporary file is created, index and memory stay as they are.
C8_BadExtensionRejected == [](C8_Rejected) /\ [][C8_RejectStep]_vars

C8_Witness ==
    \E r \in Uploads :
        /\ BadName(r)
        /\ req[r].pc = "done"
        /\ req[r].status = 400
        /\ published # <<>>

\* C9: every file-type error and every extraction error of an upload is
\* answered with a 4xx status.
C9_UploadErrorsAre4xx ==
    \A r \in Uploads :
        (/\ req[r].pc = "done"
         /\ \/ BadName(r)
            \/ ~extract_text(req[r].file).ok)
            => req[r].status \in 400..499

C10_NeverEmpty == Len(vector_store) >= 1

C10_FailedUploadStep ==
    \A r \in Uploads :
        (Stepped(r) /\ req[r].status = 0 /\ req'[r].status >= 400)
            => vector_store' = vector_store

\* C10: the index always holds at least one entry, from the placeholder on;
\* an upload that fails (zero chunks, extraction, embedding) leaves the
\* previous index in place.
C10_IndexNeverEmpty == [](C10_NeverEmpty) /\ [][C10_FailedUploadStep]_vars

C10_Witness ==
    \E r \in Uploads :
        /\ req[r].pc = "done"
        /\ req[r].called
        /\ req[r].chunks = <<>>
        /\ req[r].status = 500
        /\ Len(vector_store) >= 1

====
